---- MODULE Spec2Model ----
(***************************************************************************)
(* PMG1 CapSense CSD button tuning example (src/main.c).                   *)
(*                                                                         *)
(* The model has three execution contexts: the foreground program main()   *)
(* (one action per statement, position in pc), the CapSense interrupt      *)
(* capsense_isr and the EZI2C interrupt ezi2c_isr.  An interrupt service   *)
(* routine has an entry step and a body step; while a routine is active    *)
(* the foreground does not run, and a routine is preempted only by an      *)
(* interrupt of a numerically lower priority value.                        *)
(*                                                                         *)
(* The CapSense middleware, the SCB driver and the CSD hardware are        *)
(* outside src/main.c.  Their calls are modelled by their effect on the    *)
(* state main.c observes, and their return statuses and measured values    *)
(* are inputs chosen with \E.  CY_ASSERT is a macro of the build: without  *)
(* NDEBUG a zero argument stops the program (the halt that the comment of  *)
(* main.c line 184 documents), with NDEBUG the macro expands to nothing    *)
(* and main() goes on with the next statement.  Both builds are modelled.  *)
(* Cy_CapSense_Enable and Cy_CapSense_MeasureCapacitanceSensor are blocking *)
(* calls: each is one step that returns with the CSD block idle.  The      *)
(* external bus master is modelled as a reader of the exposed buffer.      *)
(*                                                                         *)
(* Cy_CapSense_ProcessAllWidgets is the signal processor of the design     *)
(* (baseline tracking, difference count, hysteresis, implausible counts).  *)
(* It is given as the function ProcessSensor.  main.c observes only the    *)
(* widget status, so in Spec the baseline a processing step works with is  *)
(* an input of the step.  ProcSpec runs the signal path alone, cycle after *)
(* cycle, with the baseline and the difference count of each sensor kept   *)
(* in dsp.                                                                 *)
(***************************************************************************)
EXTENDS Integers, FiniteSets, Sequences, TLC

(* ---------------------------- bounds ----------------------------------- *)
\* largest raw count of the measurement range; a scan can also deliver one
\* implausible count above it
MaxRaw == 2
\* the event counters saturate at this value
MaxCount == 1

(* ----------------------- program constants ----------------------------- *)
CY_ASSERT_FAILED == 0
EZI2C_INTR_PRIORITY == 2
CAPSENSE_INTR_PRIORITY == 3
NO_BUTTON_TOUCH == 0
CY_CAPSENSE_BUTTON0_WDGT_ID == 0
CY_CAPSENSE_BUTTON1_WDGT_ID == 1
\* hysteresis thresholds on the difference count
OnThreshold == 2
OffThreshold == 0

Widgets == {CY_CAPSENSE_BUTTON0_WDGT_ID, CY_CAPSENSE_BUTTON1_WDGT_ID}
RawVals == 0..(MaxRaw + 1)
\* values of a sensor baseline
BaselineVals == 0..MaxRaw
\* the parasitic capacitance a self-test measurement delivers: the program
\* stores the value and never reads it, so one value stands for all
CpVals == {0}
\* indicators, named after the widget they belong to
LED_BTN0 == 0
LED_BTN1 == 1
Leds == {LED_BTN0, LED_BTN1}

\* return statuses of the driver and middleware calls
SUCCESS == "SUCCESS"
FAILURE == "FAILURE"
Statuses == {SUCCESS, FAILURE}
CY_CAPSENSE_BUSY == "BUSY"
CY_CAPSENSE_NOT_BUSY == "NOT_BUSY"
CYBSP_LED_STATE_ON == "ON"
CYBSP_LED_STATE_OFF == "OFF"

VARIABLES
  pc,                  \* position of main()
  bistEn,              \* CY_CAPSENSE_BIST_EN of the build
  ndebug,              \* NDEBUG of the build: CY_ASSERT expands to nothing
  dsp,                 \* sensor and widget state of the signal path alone
  irqGlobal,           \* __enable_irq() has run
  busHandler,          \* ezi2c_isr is registered
  busIrqEnabled,       \* NVIC enable of the EZI2C interrupt
  bufSet,              \* number of Cy_SCB_EZI2C_SetBuffer1 calls
  scbEnabled,          \* Cy_SCB_EZI2C_Enable has run
  busPending,          \* the EZI2C interrupt is pending
  inBusIsr,            \* ezi2c_isr is active
  capHandler,          \* capsense_isr is registered
  capIrqEnabled,       \* NVIC enable of the CSD interrupt
  capPending,          \* the CSD interrupt is pending
  inCapIsr,            \* capsense_isr is active
  busy,                \* CapSense status reported by Cy_CapSense_IsBusy
  hwActive,            \* the CSD block is converting sensor snsIdx
  snsIdx,              \* sensor of the scan being converted
  cy_capsense_tuner,   \* the CapSense data structure, exposed over EZI2C
  led,                 \* the two indicator outputs
  button_0_sensor_cp, button_1_sensor_cp,
  cp_0_status, cp_1_status,
  setupFailed,         \* a checked call before the first scan has failed
  lastScanStatus,      \* status of the last Cy_CapSense_ScanAllWidgets call
  rawNewer,            \* raw count written after the last processing
  processed,           \* processing ran since the last scan start call
  published,           \* publish completed since the last processing
  ledWritten,          \* indicators written since the last processing
  cpMeasured,          \* self-test measurements of each sensor since then
  nScan, nProc, nLed, nPub   \* saturating event counters

\* the state of the program: everything but the signal path run alone
progVars == <<pc, bistEn, ndebug, irqGlobal, busHandler, busIrqEnabled, bufSet,
              scbEnabled, busPending, inBusIsr, capHandler, capIrqEnabled,
              capPending, inCapIsr, busy, hwActive, snsIdx,
              cy_capsense_tuner, led, button_0_sensor_cp,
              button_1_sensor_cp, cp_0_status, cp_1_status, setupFailed,
              lastScanStatus, rawNewer, processed, published, ledWritten,
              cpMeasured, nScan, nProc, nLed, nPub>>

vars == <<progVars, dsp>>

busVars == <<busHandler, busIrqEnabled, bufSet, scbEnabled, busPending,
             inBusIsr>>
capVars == <<capHandler, capIrqEnabled, capPending, inCapIsr, busy, hwActive,
             snsIdx>>
bistVars == <<button_0_sensor_cp, button_1_sensor_cp, cp_0_status,
              cp_1_status>>
ghostVars == <<rawNewer, processed, published, ledWritten, cpMeasured,
               nScan, nProc, nLed, nPub>>

Sat(n) == IF n < MaxCount THEN n + 1 ELSE n

Init ==
  /\ pc = "cybsp_init"
  /\ bistEn \in BOOLEAN
  /\ ndebug \in BOOLEAN
  /\ dsp = [w \in Widgets |->
              [raw |-> 0, bsl |-> 0, diff |-> 0, active |-> 0,
               ind |-> CYBSP_LED_STATE_OFF]]
  /\ irqGlobal = FALSE
  /\ busHandler = FALSE /\ busIrqEnabled = FALSE /\ bufSet = 0
  /\ scbEnabled = FALSE /\ busPending = FALSE /\ inBusIsr = FALSE
  /\ capHandler = FALSE /\ capIrqEnabled = FALSE /\ capPending = FALSE
  /\ inCapIsr = FALSE /\ busy = FALSE /\ hwActive = FALSE /\ snsIdx = 0
  /\ cy_capsense_tuner = [raw |-> [w \in Widgets |-> 0],
                          status |-> [w \in Widgets |-> 0]]
  /\ led = [l \in Leds |-> CYBSP_LED_STATE_OFF]
  /\ button_0_sensor_cp = 0 /\ button_1_sensor_cp = 0
  /\ cp_0_status = SUCCESS /\ cp_1_status = SUCCESS
  /\ setupFailed = FALSE
  /\ lastScanStatus = "none"
  /\ rawNewer = [w \in Widgets |-> FALSE]
  /\ processed = FALSE /\ published = FALSE
  /\ ledWritten = [l \in Leds |-> FALSE]
  /\ cpMeasured = [w \in Widgets |-> 0]
  /\ nScan = 0 /\ nProc = 0 /\ nLed = 0 /\ nPub = 0

(* ------------------------- helper operators ---------------------------- *)
\* CY_ASSERT(x): in a build without NDEBUG a zero argument stops the
\* program; in a build with NDEBUG the macro is empty
CY_ASSERT(x, next) == IF x = 0 /\ ~ndebug THEN "halted" ELSE next

\* "if (result != SUCCESS) CY_ASSERT(CY_ASSERT_FAILED)": a status other than
\* success reaches the assertion, success continues with the next statement
Checked(st, next) ==
  IF st /= SUCCESS THEN CY_ASSERT(CY_ASSERT_FAILED, next) ELSE next

\* a checked call before the first scan has returned a failure status
Failed(st) == setupFailed \/ st /= SUCCESS

\* statements of main() before the loop, in program order
StartupOrder ==
  <<"cybsp_init", "enable_irq", "ezi2c_init", "ezi2c_sysint", "ezi2c_nvic",
    "set_buffer", "ezi2c_enable", "cap_init", "cap_sysint",
    "cap_clear_pending", "cap_nvic", "cap_enable", "first_scan", "is_busy">>

\* variant: the next scan is started before the tuner is run
LoopOrder_ScanBeforePublish(bist) ==
  IF bist
    THEN <<"process", "led0", "led1", "scan", "run_tuner", "in_tuner",
           "bist0", "bist1", "is_busy">>
    ELSE <<"process", "led0", "led1", "scan", "run_tuner", "in_tuner",
           "is_busy">>

\* variant: the second self-test measurement is left out
LoopOrder_OneMeasurement(bist) ==
  IF bist
    THEN <<"process", "led0", "led1", "run_tuner", "in_tuner", "bist0",
           "scan", "is_busy">>
    ELSE <<"process", "led0", "led1", "run_tuner", "in_tuner", "scan",
           "is_busy">>

\* statements of the not-busy branch of the loop, in program order; the
\* self-test statements exist only in a build with CY_CAPSENSE_BIST_EN
LoopOrder(bist) ==
  IF bist
    THEN <<"process", "led0", "led1", "run_tuner", "in_tuner", "bist0",
           "bist1", "scan", "is_busy">>
    ELSE <<"process", "led0", "led1", "run_tuner", "in_tuner", "scan",
           "is_busy">>

SeqNext(o, p) == o[(CHOOSE i \in 1..Len(o) : o[i] = p) + 1]
StartupNext(p) == SeqNext(StartupOrder, p)
LoopNext(p) == SeqNext(LoopOrder(bistEn), p)

StartupPcs == {StartupOrder[i] : i \in 1..(Len(StartupOrder) - 1)}
LoopPcs == {"is_busy", "process", "led0", "led1", "run_tuner", "in_tuner",
            "bist0", "bist1", "scan"}

\* the foreground runs only while no interrupt service routine is active
Fg(p) == pc = p /\ ~inBusIsr /\ ~inCapIsr

\* variant: the larger priority value wins
Preempts_LargerWins(new, cur) == new > cur

\* an interrupt of priority value new preempts a routine of value cur
Preempts(new, cur) == new < cur

\* variant: the status never reports a scan in progress
Cy_CapSense_IsBusy_Never == CY_CAPSENSE_NOT_BUSY

Cy_CapSense_IsBusy == IF busy THEN CY_CAPSENSE_BUSY ELSE CY_CAPSENSE_NOT_BUSY

\* variant: the branch is entered whatever the status
AfterBusyCheck_Always(b) == "process"

\* variant: the branch is entered for the busy status
AfterBusyCheck_Inverted(b) ==
  IF CY_CAPSENSE_BUSY = b THEN "process" ELSE "is_busy"

\* the branch of the loop taken for a busy status b
AfterBusyCheck(b) == IF CY_CAPSENSE_BUSY /= b THEN "process" ELSE "is_busy"

Cy_CapSense_IsWidgetActive(w) == cy_capsense_tuner.status[w]

\* variant: both indicators follow Button0
LedWidget_Button0(l) == CY_CAPSENSE_BUTTON0_WDGT_ID

\* the widget whose state drives indicator l
LedWidget(l) ==
  IF l = LED_BTN0 THEN CY_CAPSENSE_BUTTON0_WDGT_ID
                  ELSE CY_CAPSENSE_BUTTON1_WDGT_ID

\* the level written to an indicator for a widget status
LedState(active) ==
  IF NO_BUTTON_TOUCH /= active THEN CYBSP_LED_STATE_ON
                               ELSE CYBSP_LED_STATE_OFF

\* variant: the EZI2C interrupt is disabled by the call
RunTunerIrqMask_Disable(en) == FALSE

\* the NVIC enable of the EZI2C interrupt across Cy_CapSense_RunTuner: the
\* call is made with the interrupt enables as they are
RunTunerIrqMask(en) == en

\* variant: one threshold, no hysteresis
Decide_NoHysteresis(d, prev) == IF d > OffThreshold THEN 1 ELSE 0

\* hysteresis decision for difference count d of a widget in state prev
Decide(d, prev) ==
  IF d >= OnThreshold THEN 1 ELSE IF d <= OffThreshold THEN 0 ELSE prev

\* a raw count within the measurement range
Plausible(r) == r <= MaxRaw

\* the baselines the tracking rule can produce from baseline b and raw count
\* r: the baseline moves towards the raw count and never past it, by as much
\* as the rule (exponential decay or rate limit) absorbs in one cycle, and
\* stays within the measurement range
TrackBaseline(b, r) ==
  LET t == IF Plausible(r) THEN r ELSE MaxRaw
  IN {nb \in BaselineVals : (b <= nb /\ nb <= t) \/ (t <= nb /\ nb <= b)}

\* difference count of raw count r over baseline b, clamped at zero
DiffCount(r, b) == IF r > b THEN r - b ELSE 0

\* one sensor of process_all_widgets: nb is the updated baseline, prev the
\* state of the widget; an implausible raw count makes the widget inactive
ProcessSensor(r, nb, prev) ==
  [bsl |-> nb,
   diff |-> DiffCount(r, nb),
   active |-> IF Plausible(r) THEN Decide(DiffCount(r, nb), prev) ELSE 0]

\* a scan of all widgets is in flight
ScanInFlight == hwActive \/ capPending \/ inCapIsr

(* ------------------------------ startup -------------------------------- *)
BspInit ==
  /\ Fg("cybsp_init")
  /\ \E result \in Statuses :
       /\ pc' = Checked(result, StartupNext(pc))
       /\ setupFailed' = Failed(result)
  /\ UNCHANGED <<bistEn, ndebug, dsp, irqGlobal, busVars, capVars,
                 cy_capsense_tuner, led, bistVars, lastScanStatus, ghostVars>>

EnableIrq ==
  /\ Fg("enable_irq")
  /\ irqGlobal' = TRUE
  /\ pc' = StartupNext(pc)
  /\ UNCHANGED <<bistEn, ndebug, dsp, busVars, capVars, cy_capsense_tuner,
                 led, bistVars, setupFailed, lastScanStatus, ghostVars>>

Ezi2cInit ==
  /\ Fg("ezi2c_init")
  /\ \E ezi2c_result \in Statuses :
       /\ pc' = Checked(ezi2c_result, StartupNext(pc))
       /\ setupFailed' = Failed(ezi2c_result)
  /\ UNCHANGED <<bistEn, ndebug, dsp, irqGlobal, busVars, capVars,
                 cy_capsense_tuner, led, bistVars, lastScanStatus, ghostVars>>

Ezi2cSysIntInit ==
  /\ Fg("ezi2c_sysint")
  /\ \E intr_result \in Statuses :
       /\ pc' = Checked(intr_result, StartupNext(pc))
       /\ setupFailed' = Failed(intr_result)
       /\ busHandler' = (intr_result = SUCCESS)
  /\ UNCHANGED <<bistEn, ndebug, dsp, irqGlobal, busIrqEnabled, bufSet,
                 scbEnabled, busPending, inBusIsr, capVars, cy_capsense_tuner,
                 led, bistVars, lastScanStatus, ghostVars>>

Ezi2cNvicEnable ==
  /\ Fg("ezi2c_nvic")
  /\ busIrqEnabled' = TRUE
  /\ pc' = StartupNext(pc)
  /\ UNCHANGED <<bistEn, ndebug, dsp, irqGlobal, busHandler, bufSet,
                 scbEnabled, busPending, inBusIsr, capVars, cy_capsense_tuner,
                 led, bistVars, setupFailed, lastScanStatus, ghostVars>>

SetBuffer1 ==
  /\ Fg("set_buffer")
  /\ bufSet' = bufSet + 1
  /\ pc' = StartupNext(pc)
  /\ UNCHANGED <<bistEn, ndebug, dsp, irqGlobal, busHandler, busIrqEnabled,
                 scbEnabled, busPending, inBusIsr, capVars, cy_capsense_tuner,
                 led, bistVars, setupFailed, lastScanStatus, ghostVars>>

Ezi2cEnable ==
  /\ Fg("ezi2c_enable")
  /\ scbEnabled' = TRUE
  /\ pc' = StartupNext(pc)
  /\ UNCHANGED <<bistEn, ndebug, dsp, irqGlobal, busHandler, busIrqEnabled,
                 bufSet, busPending, inBusIsr, capVars, cy_capsense_tuner,
                 led, bistVars, setupFailed, lastScanStatus, ghostVars>>

CapSenseInit ==
  /\ Fg("cap_init")
  /\ \E cap_result \in Statuses :
       /\ pc' = Checked(cap_result, StartupNext(pc))
       /\ setupFailed' = Failed(cap_result)
  /\ UNCHANGED <<bistEn, ndebug, dsp, irqGlobal, busVars, capVars,
                 cy_capsense_tuner, led, bistVars, lastScanStatus, ghostVars>>

CapSysIntInit ==
  /\ Fg("cap_sysint")
  /\ \E intr_result \in Statuses :
       /\ pc' = Checked(intr_result, StartupNext(pc))
       /\ setupFailed' = Failed(intr_result)
       /\ capHandler' = (intr_result = SUCCESS)
  /\ UNCHANGED <<bistEn, ndebug, dsp, irqGlobal, busVars, capIrqEnabled,
                 capPending, inCapIsr, busy, hwActive, snsIdx,
                 cy_capsense_tuner, led, bistVars, lastScanStatus, ghostVars>>

CapClearPending ==
  /\ Fg("cap_clear_pending")
  /\ capPending' = FALSE
  /\ pc' = StartupNext(pc)
  /\ UNCHANGED <<bistEn, ndebug, dsp, irqGlobal, busVars, capHandler,
                 capIrqEnabled, inCapIsr, busy, hwActive, snsIdx,
                 cy_capsense_tuner, led, bistVars, setupFailed,
                 lastScanStatus, ghostVars>>

CapNvicEnable ==
  /\ Fg("cap_nvic")
  /\ capIrqEnabled' = TRUE
  /\ pc' = StartupNext(pc)
  /\ UNCHANGED <<bistEn, ndebug, dsp, irqGlobal, busVars, capHandler,
                 capPending, inCapIsr, busy, hwActive, snsIdx,
                 cy_capsense_tuner, led, bistVars, setupFailed,
                 lastScanStatus, ghostVars>>

CapSenseEnable ==
  /\ Fg("cap_enable")
  /\ \E cap_result \in Statuses :
       /\ pc' = Checked(cap_result, StartupNext(pc))
       /\ setupFailed' = Failed(cap_result)
  /\ UNCHANGED <<bistEn, ndebug, dsp, irqGlobal, busVars, capVars,
                 cy_capsense_tuner, led, bistVars, lastScanStatus, ghostVars>>

\* Cy_CapSense_ScanAllWidgets: an accepted request starts the conversion of
\* the first sensor and sets the busy status; a request made while a scan is
\* in flight is rejected
ScanRequest(st) ==
  /\ (busy \/ ScanInFlight) => st /= SUCCESS
  /\ lastScanStatus' = st
  /\ IF st = SUCCESS
       THEN busy' = TRUE /\ hwActive' = TRUE /\ snsIdx' = 0
       ELSE UNCHANGED <<busy, hwActive, snsIdx>>
  /\ nScan' = Sat(nScan)
  /\ processed' = FALSE
  /\ UNCHANGED <<capHandler, capIrqEnabled, capPending, inCapIsr>>

FirstScan ==
  /\ Fg("first_scan")
  /\ \E cap_result \in Statuses :
       /\ ScanRequest(cap_result)
       /\ pc' = Checked(cap_result, StartupNext(pc))
  /\ UNCHANGED <<bistEn, ndebug, dsp, irqGlobal, busVars, cy_capsense_tuner,
                 led, bistVars, setupFailed, rawNewer, published, ledWritten,
                 cpMeasured, nProc, nLed, nPub>>

(* ------------------------------ main loop ------------------------------ *)
IsBusy ==
  /\ Fg("is_busy")
  /\ pc' = AfterBusyCheck(Cy_CapSense_IsBusy)
  /\ UNCHANGED <<bistEn, ndebug, dsp, irqGlobal, busVars, capVars,
                 cy_capsense_tuner, led, bistVars, setupFailed,
                 lastScanStatus, ghostVars>>

\* Cy_CapSense_ProcessAllWidgets: the status of every widget from the raw
\* counts now in the data structure; nb is the updated baseline of each
\* sensor, which main.c does not observe
ProcessAllWidgets ==
  /\ Fg("process")
  /\ \E nb \in [Widgets -> BaselineVals] :
       cy_capsense_tuner' =
         [raw |-> cy_capsense_tuner.raw,
          status |-> [w \in Widgets |->
                        ProcessSensor(cy_capsense_tuner.raw[w], nb[w],
                                      cy_capsense_tuner.status[w]).active]]
  /\ rawNewer' = [w \in Widgets |-> FALSE]
  /\ processed' = TRUE
  /\ published' = FALSE
  /\ ledWritten' = [l \in Leds |-> FALSE]
  /\ cpMeasured' = [w \in Widgets |-> 0]
  /\ nProc' = Sat(nProc)
  /\ pc' = LoopNext(pc)
  /\ UNCHANGED <<bistEn, ndebug, dsp, irqGlobal, busVars, capVars, led,
                 bistVars, setupFailed, lastScanStatus, nScan, nLed, nPub>>

\* Cy_GPIO_Write of indicator l from the status of its widget
WriteLed(l) ==
  /\ led' = [led EXCEPT ![l] = LedState(Cy_CapSense_IsWidgetActive(LedWidget(l)))]
  /\ ledWritten' = [ledWritten EXCEPT ![l] = TRUE]
  /\ nLed' = Sat(nLed)
  /\ pc' = LoopNext(pc)
  /\ UNCHANGED <<bistEn, ndebug, dsp, irqGlobal, busVars, capVars,
                 cy_capsense_tuner, bistVars, setupFailed, lastScanStatus,
                 rawNewer, processed, published, cpMeasured, nScan, nProc,
                 nPub>>

LedBtn0 == Fg("led0") /\ WriteLed(LED_BTN0)

LedBtn1 == Fg("led1") /\ WriteLed(LED_BTN1)

\* Cy_CapSense_RunTuner is entered
RunTunerBegin ==
  /\ Fg("run_tuner")
  /\ busIrqEnabled' = RunTunerIrqMask(busIrqEnabled)
  /\ pc' = LoopNext(pc)
  /\ UNCHANGED <<bistEn, ndebug, dsp, irqGlobal, busHandler, bufSet,
                 scbEnabled, busPending, inBusIsr, capVars, cy_capsense_tuner,
                 led, bistVars, setupFailed, lastScanStatus, ghostVars>>

\* Cy_CapSense_RunTuner returns: the publish step of the cycle is complete
RunTunerEnd ==
  /\ Fg("in_tuner")
  /\ busIrqEnabled' = RunTunerIrqMask(busIrqEnabled)
  /\ published' = TRUE
  /\ nPub' = Sat(nPub)
  /\ pc' = LoopNext(pc)
  /\ UNCHANGED <<bistEn, ndebug, dsp, irqGlobal, busHandler, bufSet,
                 scbEnabled, busPending, inBusIsr, capVars, cy_capsense_tuner,
                 led, bistVars, setupFailed, lastScanStatus, rawNewer,
                 processed, ledWritten, cpMeasured, nScan, nProc, nLed>>

\* the value left in the capacitance variable by a measurement of status st
\* that measured cp
MeasuredCp(st, cp, old) == IF st = SUCCESS THEN cp ELSE old

\* variant: a failed measurement sends the loop back to the processing
AfterMeasure_Reprocess(st, next) == IF st /= SUCCESS THEN "process" ELSE next

\* variant: a failed measurement stops the program
AfterMeasure_Halt(st, next) == IF st /= SUCCESS THEN "halted" ELSE next

\* the statement after a self-test measurement of status st
AfterMeasure(st, next) == next

\* measure_sensor_cp, first call of Cy_CapSense_MeasureCapacitanceSensor
MeasureCp0 ==
  /\ Fg("bist0")
  /\ \E st \in Statuses, cp \in CpVals :
       /\ cp_0_status' = st
       /\ cpMeasured' = [cpMeasured EXCEPT ![CY_CAPSENSE_BUTTON0_WDGT_ID] = @ + 1]
       /\ button_0_sensor_cp' = MeasuredCp(st, cp, button_0_sensor_cp)
       /\ pc' = AfterMeasure(st, LoopNext(pc))
  /\ UNCHANGED <<bistEn, ndebug, dsp, irqGlobal, busVars, capVars,
                 cy_capsense_tuner, led, button_1_sensor_cp, cp_1_status,
                 setupFailed, lastScanStatus, rawNewer, processed, published,
                 ledWritten, nScan, nProc, nLed, nPub>>

\* measure_sensor_cp, second call of Cy_CapSense_MeasureCapacitanceSensor
MeasureCp1 ==
  /\ Fg("bist1")
  /\ \E st \in Statuses, cp \in CpVals :
       /\ cp_1_status' = st
       /\ cpMeasured' = [cpMeasured EXCEPT ![CY_CAPSENSE_BUTTON1_WDGT_ID] = @ + 1]
       /\ button_1_sensor_cp' = MeasuredCp(st, cp, button_1_sensor_cp)
       /\ pc' = AfterMeasure(st, LoopNext(pc))
  /\ UNCHANGED <<bistEn, ndebug, dsp, irqGlobal, busVars, capVars,
                 cy_capsense_tuner, led, button_0_sensor_cp, cp_0_status,
                 setupFailed, lastScanStatus, rawNewer, processed, published,
                 ledWritten, nScan, nProc, nLed, nPub>>

\* the statement after the scan start of the loop, whose status is dropped
AfterRescan(st, next) == next

\* "Start the next scan": the returned status is not looked at
ScanNext ==
  /\ Fg("scan")
  /\ \E st \in Statuses :
       /\ ScanRequest(st)
       /\ pc' = AfterRescan(st, LoopNext(pc))
  /\ UNCHANGED <<bistEn, ndebug, dsp, irqGlobal, busVars, cy_capsense_tuner,
                 led, bistVars, setupFailed, rawNewer, published, ledWritten,
                 cpMeasured, nProc, nLed, nPub>>

(* --------------------------- CSD interrupt ----------------------------- *)
\* the CSD block finishes the conversion of sensor snsIdx and raises its
\* interrupt
HwConversionDone ==
  /\ hwActive
  /\ hwActive' = FALSE
  /\ capPending' = TRUE
  /\ UNCHANGED <<pc, bistEn, ndebug, dsp, irqGlobal, busVars, capHandler,
                 capIrqEnabled, inCapIsr, busy, snsIdx, cy_capsense_tuner,
                 led, bistVars, setupFailed, lastScanStatus, ghostVars>>

\* capsense_isr is entered
CapIsrEntry ==
  /\ capPending /\ capIrqEnabled /\ capHandler /\ irqGlobal
  /\ ~inCapIsr
  /\ inBusIsr => Preempts(CAPSENSE_INTR_PRIORITY, EZI2C_INTR_PRIORITY)
  /\ capPending' = FALSE
  /\ inCapIsr' = TRUE
  /\ UNCHANGED <<pc, bistEn, ndebug, dsp, irqGlobal, busVars, capHandler,
                 capIrqEnabled, busy, hwActive, snsIdx, cy_capsense_tuner,
                 led, bistVars, setupFailed, lastScanStatus, ghostVars>>

\* the last sensor of the scan has been converted
LastSensor(i) == i = Cardinality(Widgets) - 1

\* variant: the busy status is cleared by the interrupt of any sensor
BusyAfterIsr_Early(i) == FALSE

\* variant: the busy status is never cleared
BusyAfterIsr_Stuck(i) == TRUE

\* the busy status after the interrupt of sensor i has been handled
BusyAfterIsr(i) == ~LastSensor(i)

\* Cy_CapSense_InterruptHandler: stores the raw count of the converted
\* sensor, then starts the next sensor or ends the scan
CapIsrBody ==
  /\ inCapIsr
  /\ inBusIsr => Preempts(CAPSENSE_INTR_PRIORITY, EZI2C_INTR_PRIORITY)
  /\ \E r \in RawVals :
       cy_capsense_tuner' =
         [cy_capsense_tuner EXCEPT !.raw[snsIdx] = r]
  /\ rawNewer' = [rawNewer EXCEPT ![snsIdx] = TRUE]
  /\ IF LastSensor(snsIdx)
       THEN hwActive' = FALSE /\ snsIdx' = snsIdx
       ELSE hwActive' = TRUE /\ snsIdx' = snsIdx + 1
  /\ busy' = BusyAfterIsr(snsIdx)
  /\ inCapIsr' = FALSE
  /\ UNCHANGED <<pc, bistEn, ndebug, dsp, irqGlobal, busVars, capHandler,
                 capIrqEnabled, capPending, led, bistVars, setupFailed,
                 lastScanStatus, processed, published, ledWritten, cpMeasured,
                 nScan, nProc, nLed, nPub>>

(* -------------------------- EZI2C interrupt ---------------------------- *)
\* the bus master addresses the enabled slave
BusRequest ==
  /\ scbEnabled /\ ~busPending /\ ~inBusIsr
  /\ busPending' = TRUE
  /\ UNCHANGED <<pc, bistEn, ndebug, dsp, irqGlobal, busHandler,
                 busIrqEnabled, bufSet, scbEnabled, inBusIsr, capVars,
                 cy_capsense_tuner, led, bistVars, setupFailed,
                 lastScanStatus, ghostVars>>

\* ezi2c_isr is entered
BusIsrEntry ==
  /\ busPending /\ busIrqEnabled /\ busHandler /\ irqGlobal
  /\ ~inBusIsr
  /\ inCapIsr => Preempts(EZI2C_INTR_PRIORITY, CAPSENSE_INTR_PRIORITY)
  /\ busPending' = FALSE
  /\ inBusIsr' = TRUE
  /\ UNCHANGED <<pc, bistEn, ndebug, dsp, irqGlobal, busHandler,
                 busIrqEnabled, bufSet, scbEnabled, capVars,
                 cy_capsense_tuner, led, bistVars, setupFailed,
                 lastScanStatus, ghostVars>>

\* Cy_SCB_EZI2C_Interrupt: serves the request of the master from the
\* registered buffer as it is at this moment; a read leaves the program
\* state as it is
BusIsrBody ==
  /\ inBusIsr
  /\ inBusIsr' = FALSE
  /\ UNCHANGED <<pc, bistEn, ndebug, dsp, irqGlobal, busHandler,
                 busIrqEnabled, bufSet, scbEnabled, busPending, capVars,
                 cy_capsense_tuner, led, bistVars, setupFailed,
                 lastScanStatus, ghostVars>>

(* --------------------------- specification ----------------------------- *)
Foreground ==
  \/ BspInit \/ EnableIrq \/ Ezi2cInit \/ Ezi2cSysIntInit \/ Ezi2cNvicEnable
  \/ SetBuffer1 \/ Ezi2cEnable \/ CapSenseInit \/ CapSysIntInit
  \/ CapClearPending \/ CapNvicEnable \/ CapSenseEnable \/ FirstScan
  \/ IsBusy \/ ProcessAllWidgets \/ LedBtn0 \/ LedBtn1 \/ RunTunerBegin
  \/ RunTunerEnd \/ MeasureCp0 \/ MeasureCp1 \/ ScanNext

Next ==
  \/ BspInit \/ EnableIrq \/ Ezi2cInit \/ Ezi2cSysIntInit \/ Ezi2cNvicEnable
  \/ SetBuffer1 \/ Ezi2cEnable \/ CapSenseInit \/ CapSysIntInit
  \/ CapClearPending \/ CapNvicEnable \/ CapSenseEnable \/ FirstScan
  \/ IsBusy \/ ProcessAllWidgets \/ LedBtn0 \/ LedBtn1 \/ RunTunerBegin
  \/ RunTunerEnd \/ MeasureCp0 \/ MeasureCp1 \/ ScanNext
  \/ HwConversionDone \/ CapIsrEntry \/ CapIsrBody
  \/ BusRequest \/ BusIsrEntry \/ BusIsrBody

Spec == Init /\ [][Next]_vars

\* every started conversion completes, interrupts are served and the
\* foreground is not starved by the bus
LiveSpec ==
  /\ Init /\ [][Next]_vars
  /\ SF_vars(Foreground)
  /\ WF_vars(HwConversionDone)
  /\ SF_vars(CapIsrEntry)
  /\ SF_vars(CapIsrBody)
  /\ WF_vars(BusIsrBody)

(* --------------------------- the signal path --------------------------- *)
\* one acquisition cycle seen from one sensor to its indicator: the scan
\* delivers raw count rd[w], the processing updates the baseline, the
\* difference count and the widget state, and the indicator is written from
\* the widget state
ProcCycle ==
  /\ \E rd \in [Widgets -> RawVals], nb \in [Widgets -> BaselineVals] :
       /\ \A w \in Widgets : nb[w] \in TrackBaseline(dsp[w].bsl, rd[w])
       /\ dsp' = [w \in Widgets |->
                    LET o == ProcessSensor(rd[w], nb[w], dsp[w].active)
                    IN [raw |-> rd[w], bsl |-> o.bsl, diff |-> o.diff,
                        active |-> o.active, ind |-> LedState(o.active)]]
  /\ UNCHANGED progVars

ProcSpec == Init /\ [][ProcCycle]_vars

(* ------------------------------ properties ----------------------------- *)
\* statements after the indicator writes of a cycle
AfterLedPcs == {"run_tuner", "in_tuner", "bist0", "bist1", "scan"}

\* C1: whenever Cy_CapSense_ScanAllWidgets returns a non-success status, for
\* the first scan or a re-scan of the loop, the program is halted.
C1_RejectedScanHalts == lastScanStatus = FAILURE => pc = "halted"

\* C2: whenever processing is about to execute, the busy status is clear, no
\* scan is in flight and no completion interrupt is pending or being served.
C2_ProcessOnlyWhenIdle ==
  pc = "process" => (~busy /\ ~hwActive /\ ~capPending /\ ~inCapIsr)

C2_Witness ==
  /\ pc = "process" /\ lastScanStatus = SUCCESS
  /\ \A w \in Widgets : rawNewer[w]

\* C3: the tuner is run only after the processing of the cycle and while no
\* scan is in flight, and the next scan start is reached only after the
\* publish of the cycle has completed.
C3_PublishBetweenProcessAndScan ==
  /\ pc \in {"run_tuner", "in_tuner"} =>
       (processed /\ ~published /\ ~busy /\ ~ScanInFlight)
  /\ pc = "scan" => (processed /\ published)

C3_Witness == pc = "scan" /\ published /\ processed /\ nScan >= 1

\* a read of the exposed buffer is served in this step
ReadServed == inBusIsr /\ ~inBusIsr' /\ bufSet > 0

\* C4 as claimed: once publish has completed for the flags in the buffer, no
\* read returns them together with raw counts written by a later scan.
C4_NoCrossCycleRead ==
  [][(ReadServed /\ published) => \A w \in Widgets : ~rawNewer[w]]_vars

\* C4 amended: a read served after publish has completed and before the next
\* scan start is called returns the flags with the raw counts they were
\* computed from.
C4_ReadBeforeRescanConsistent ==
  [][(ReadServed /\ published /\ processed) =>
       \A w \in Widgets : ~rawNewer[w]]_vars

C4_Witness ==
  /\ inBusIsr /\ bufSet > 0 /\ published /\ processed
  /\ lastScanStatus = SUCCESS

\* C5 as claimed: ezi2c_isr is never active between the start and the end of
\* Cy_CapSense_RunTuner.
C5_BusIsrExcludedFromPublish == ~(pc = "in_tuner" /\ inBusIsr)

\* C5 amended: once enabled at startup the EZI2C interrupt is never
\* disabled, in particular not around Cy_CapSense_RunTuner.
C5_BusIrqNeverDisabled == [][busIrqEnabled => busIrqEnabled']_vars

C5_Witness == pc = "in_tuner" /\ inBusIsr /\ busIrqEnabled

\* C6: once a checked startup call has failed, the program is halted and no
\* scan start, processing, indicator write or publish has happened.
C6_StartupFailureHalts ==
  setupFailed =>
    (pc = "halted" /\ nScan = 0 /\ nProc = 0 /\ nLed = 0 /\ nPub = 0
     /\ ~busy /\ ~ScanInFlight)

\* C7: an indicator written in the cycle is ON exactly when its own widget
\* is active, and after the actuation step both indicators have been written
\* in this cycle.
C7_IndicatorsFollowWidgets ==
  /\ ledWritten[LED_BTN0] =>
       (led[LED_BTN0] = CYBSP_LED_STATE_ON
          <=> cy_capsense_tuner.status[CY_CAPSENSE_BUTTON0_WDGT_ID] /= 0)
  /\ ledWritten[LED_BTN1] =>
       (led[LED_BTN1] = CYBSP_LED_STATE_ON
          <=> cy_capsense_tuner.status[CY_CAPSENSE_BUTTON1_WDGT_ID] /= 0)
  /\ pc \in AfterLedPcs => \A l \in Leds : ledWritten[l]

C7_Witness ==
  /\ pc = "run_tuner"
  /\ led[LED_BTN0] = CYBSP_LED_STATE_ON
  /\ led[LED_BTN1] = CYBSP_LED_STATE_OFF

\* C8: after a startup in which no call failed, every scan start is followed
\* by the processing, and every processing by the actuation, the publish and
\* a new scan start of the same cycle, again and again.
C8_CycleRepeats ==
  /\ (pc = "is_busy" /\ ~setupFailed) ~> (pc = "process")
  /\ (pc = "process" /\ ~setupFailed) ~>
       (pc = "is_busy" /\ ~processed /\ published /\ nScan >= 1
        /\ \A l \in Leds : ledWritten[l])

C8_Witness ==
  pc = "process" /\ nProc >= 1 /\ nPub >= 1 /\ published /\ ~setupFailed

\* C9: every scan start is called with the busy status clear and no scan in
\* flight, and at most one conversion is outstanding.
C9_ScanOnlyWhenIdle ==
  /\ pc \in {"first_scan", "scan"} => (~busy /\ ~ScanInFlight)
  /\ ~(hwActive /\ capPending) /\ ~(hwActive /\ inCapIsr)
  /\ ScanInFlight => busy

C9_Witness == pc = "scan" /\ nScan >= 1 /\ lastScanStatus = SUCCESS

\* C10: a self-test measurement, failed or not, changes neither the widget
\* status nor the indicators and is followed by the next statement: the
\* second measurement after the first, the scan start after the second.
C10_DiagnosticFailureRecordedOnly ==
  [][/\ (pc = "bist0" /\ pc' /= pc /\ cp_0_status' = FAILURE) =>
          (pc' = "bist1" /\ led' = led
           /\ cy_capsense_tuner' = cy_capsense_tuner)
     /\ (pc = "bist1" /\ pc' /= pc /\ cp_1_status' = FAILURE) =>
          (pc' = "scan" /\ led' = led
           /\ cy_capsense_tuner' = cy_capsense_tuner)]_vars

C10_Witness ==
  /\ cp_0_status = FAILURE /\ cp_1_status = SUCCESS
  /\ pc = "is_busy" /\ busy /\ lastScanStatus = SUCCESS

\* C11: in a build with the self-test, the first measurement is made after
\* the publish of the cycle with no scan in flight, the second after the
\* first, and at the scan start each sensor has been measured exactly once
\* in this cycle; a build without the self-test never measures.
C11_MeasuredOncePerCycle ==
  /\ pc \in {"bist0", "bist1"} =>
       (bistEn /\ processed /\ published /\ ~busy /\ ~ScanInFlight)
  /\ pc = "bist0" => \A w \in Widgets : cpMeasured[w] = 0
  /\ pc = "bist1" =>
       (cpMeasured[CY_CAPSENSE_BUTTON0_WDGT_ID] = 1
        /\ cpMeasured[CY_CAPSENSE_BUTTON1_WDGT_ID] = 0)
  /\ (pc = "scan" /\ bistEn) => \A w \in Widgets : cpMeasured[w] = 1
  /\ \A w \in Widgets : cpMeasured[w] <= 1
  /\ ~bistEn => \A w \in Widgets : cpMeasured[w] = 0

C11_Witness ==
  /\ pc = "scan" /\ bistEn /\ nScan >= 1
  /\ \A w \in Widgets : cpMeasured[w] = 1

\* the state of the acquisition cycle: everything but the position of
\* main(), the build flag and the self-test variables
cycleVars == <<irqGlobal, busVars, capVars, cy_capsense_tuner, led,
               setupFailed, lastScanStatus, rawNewer, processed, published,
               ledWritten, nScan, nProc, nLed, nPub>>

\* the position of main() with the self-test statements hidden: the
\* statement a build without the self-test is at
PcBar(p) == IF p \in {"bist0", "bist1"} THEN "scan" ELSE p

\* the not-busy branch of a build without the self-test
NoBistOrder ==
  <<"process", "led0", "led1", "run_tuner", "in_tuner", "scan", "is_busy">>

\* C12: with the self-test statements hidden, every step of a build with
\* the self-test is a step of the build without it: a measurement leaves
\* the state of the cycle (scan engine, interrupts, snapshot, indicators) as
\* it is, and every other statement of the branch is followed by the
\* statement that follows it in the build without the self-test.
C12_DiagnosticsInvisible ==
  [][/\ (pc \in {"bist0", "bist1"} /\ pc' /= pc) =>
          (PcBar(pc') = PcBar(pc) /\ UNCHANGED cycleVars)
     /\ (pc \in {"process", "led0", "led1", "run_tuner", "in_tuner", "scan"}
           /\ pc' /= pc) =>
          PcBar(pc') = SeqNext(NoBistOrder, pc)]_vars

C12_Witness ==
  /\ bistEn /\ pc = "scan" /\ cp_0_status = FAILURE
  /\ led[LED_BTN0] = CYBSP_LED_STATE_ON /\ nPub >= 1

\* C13: the priority value of the EZI2C interrupt is the smaller one, and
\* while ezi2c_isr is active capsense_isr is neither entered nor continued;
\* ezi2c_isr itself is entered over an active capsense_isr and over the
\* foreground (the witness).
C13_BusPreemptsScanIsr ==
  [][/\ EZI2C_INTR_PRIORITY < CAPSENSE_INTR_PRIORITY
     /\ inBusIsr => (inCapIsr' = inCapIsr /\ (capPending => capPending')
                     /\ cy_capsense_tuner' = cy_capsense_tuner)]_vars

C13_Witness == inBusIsr /\ inCapIsr /\ busy /\ pc = "is_busy"

C15_ProcessConsumesFreshScan ==
  pc = "process" =>
    (lastScanStatus = SUCCESS /\ \A w \in Widgets : rawNewer[w])

\* C16: when CapSense is enabled and when the first scan is started,
\* capsense_isr is registered, its interrupt enabled and not pending; while
\* a scan is in flight its interrupt is registered and enabled.
C16_ScanIsrReadyBeforeScan ==
  /\ pc \in {"cap_enable", "first_scan"} =>
       (capHandler /\ capIrqEnabled /\ irqGlobal /\ ~capPending)
  /\ (busy \/ ScanInFlight) => (capHandler /\ capIrqEnabled /\ irqGlobal)

\* C17: while the busy status is set main() stays at the busy check, and
\* no step changes the widget status, the indicators, the publish state or
\* the self-test results; a step that is not an interrupt step (the loop
\* iteration itself) changes nothing at all.
C17_BusyIterationChangesNothing ==
  [][busy =>
       /\ pc = "is_busy" /\ pc' = "is_busy"
       /\ cy_capsense_tuner'.status = cy_capsense_tuner.status
       /\ led' = led
       /\ UNCHANGED <<bistVars, cpMeasured, published, nPub, nProc, nLed>>
       /\ UNCHANGED <<capVars, busVars>> => UNCHANGED vars]_vars

C17_Witness ==
  /\ busy /\ pc = "is_busy" /\ ~inBusIsr /\ ~inCapIsr
  /\ nProc >= 1 /\ published
  /\ cy_capsense_tuner.status[CY_CAPSENSE_BUTTON0_WDGT_ID] /= 0
  /\ led[LED_BTN0] = CYBSP_LED_STATE_ON

\* C18: the EZI2C block is enabled only with ezi2c_isr registered, its
\* interrupt enabled and the buffer registered; the buffer is registered at
\* most once, and exactly once whenever a bus request is pending or served.
C18_BufferRegisteredOnceBeforeEnable ==
  /\ scbEnabled => (busHandler /\ busIrqEnabled /\ irqGlobal /\ bufSet = 1)
  /\ (busPending \/ inBusIsr) => (scbEnabled /\ bufSet = 1)
  /\ pc = "ezi2c_enable" => (busHandler /\ busIrqEnabled /\ bufSet = 1)
  /\ bufSet <= 1

====
